---- MODULE Spec2Model ----
(***************************************************************************)
(* The counter slice of counter/src/counterSlice.ts mounted in the host    *)
(* store of main-app/src/app/store.ts.                                     *)
(*                                                                         *)
(* The store is a serial action queue: every dispatched action is reduced  *)
(* in one step.  The only suspension point is the await inside the         *)
(* incrementAsync thunk, so an invocation is two steps (its start and its  *)
(* settlement) between which other dispatches may be applied.              *)
(*                                                                         *)
(* value is a JavaScript number; every value the model reaches is an       *)
(* integer far below 2^53, where number arithmetic is exact integer        *)
(* arithmetic, so value is modelled as an unbounded Int.                   *)
(***************************************************************************)
EXTENDS Integers, Sequences, FiniteSets, TLC

\* ---------------------------------------------------------------- bounds
\* |value| explored by the model (the code enforces no minimum or maximum).
MaxValue == 3
\* |amount| of incrementByAmount / incrementIfOdd / incrementAsync and
\* |result| of the collaborator call.
MaxAmount == 2
\* number of incrementAsync invocations in one behaviour.
MaxThunks == 2
\* largest n for which n increments are compared with incrementByAmount(n).
MaxRepeat == 3

Values == (-MaxValue)..MaxValue
Amounts == (-MaxAmount)..MaxAmount
RequestIds == 1..MaxThunks

\* ------------------------------------------------------------- the state
VARIABLES
  state,            \* store.getState(): the root state, one field per mounted reducer
  thunks,           \* the incrementAsync invocations, by request id
  useSliceDispatch, \* the exported dispatch hook binding (an identity)
  useSliceSelector, \* the exported selector hook binding (an identity)
  lastInit,         \* history: the arguments of the latest initializeSlicePackage call
  lastAction,       \* history: the action the store reduced last
  prevState,        \* history: the root state that action was reduced from
  lastCall,         \* history: the name of the operation that ran last
  dispatchedSum     \* history: the sum of the amounts of the actions dispatched so far

vars == <<state, thunks, useSliceDispatch, useSliceSelector, lastInit, lastAction, prevState,
          lastCall, dispatchedSum>>

\* ------------------------------------------------------------ CounterState
StatusValues == {"idle", "loading", "failed"}

\* (mutant) a slice that starts in the loading state.
initialStateLoading == [value |-> 0, status |-> "loading"]

initialState == [value |-> 0, status |-> "idle"]

\* ---------------------------------------------------------------- actions
\* An action object: its type, its payload (0 when it has none), and for the
\* lifecycle actions of incrementAsync meta.requestId and meta.arg (0 otherwise).
Action(type, payload, requestId, arg) ==
  [type |-> type, payload |-> payload, requestId |-> requestId, arg |-> arg]

\* The action Redux dispatches when the store is constructed.
initAction == Action("@@INIT", 0, 0, 0)

incrementAction == Action("counter/increment", 0, 0, 0)
decrementAction == Action("counter/decrement", 0, 0, 0)
incrementByAmountAction(amount) == Action("counter/incrementByAmount", amount, 0, 0)

pendingAction(requestId, amount) == Action("counter/fetchCount/pending", 0, requestId, amount)
fulfilledAction(requestId, result) == Action("counter/fetchCount/fulfilled", result, requestId, 0)
rejectedAction(requestId) == Action("counter/fetchCount/rejected", 0, requestId, 0)

\* --------------------------------------------------------------- reducers
\* (mutant) = written for +=.
incrementAssigns(s) == [s EXCEPT !.value = 1]

\* (mutant) an increment that builds a fresh idle state.
incrementResetsStatus(s) == [value |-> s.value + 1, status |-> "idle"]

increment(s) == [s EXCEPT !.value = @ + 1]

\* (mutant) a decrement that stops at zero.
decrementClamped(s) == [s EXCEPT !.value = IF @ - 1 < 0 THEN 0 ELSE @ - 1]

decrement(s) == [s EXCEPT !.value = @ - 1]

\* (mutant) a sum that is clamped at zero.
incrementByAmountClamped(s, action) ==
  [s EXCEPT !.value = IF @ + action.payload < 0 THEN 0 ELSE @ + action.payload]

incrementByAmount(s, action) == [s EXCEPT !.value = @ + action.payload]

\* (mutant) a start that also clears the value.
pendingCaseClearsValue(s) == [s EXCEPT !.status = "loading", !.value = 0]

pendingCase(s) == [s EXCEPT !.status = "loading"]

\* (mutant) a completion that forgets to reset status.
fulfilledCaseKeepsStatus(s, action) == [s EXCEPT !.value = @ + action.payload]

\* (mutant) a completion that stores the result in place of adding it.
fulfilledCaseOverwrites(s, action) == [s EXCEPT !.status = "idle", !.value = action.payload]

fulfilledCase(s, action) == [s EXCEPT !.status = "idle", !.value = @ + action.payload]

\* (mutant) a slice with a case for the rejected action.
counterSliceReducerHandlesRejected(s, action) ==
  CASE action.type = "counter/increment" -> increment(s)
    [] action.type = "counter/decrement" -> decrement(s)
    [] action.type = "counter/incrementByAmount" -> incrementByAmount(s, action)
    [] action.type = "counter/fetchCount/pending" -> pendingCase(s)
    [] action.type = "counter/fetchCount/fulfilled" -> fulfilledCase(s, action)
    [] action.type = "counter/fetchCount/rejected" -> [s EXCEPT !.status = "failed"]
    [] OTHER -> s

\* (mutant) a slice whose rejected case goes back to idle.
counterSliceReducerRejectedIdle(s, action) ==
  CASE action.type = "counter/increment" -> increment(s)
    [] action.type = "counter/decrement" -> decrement(s)
    [] action.type = "counter/incrementByAmount" -> incrementByAmount(s, action)
    [] action.type = "counter/fetchCount/pending" -> pendingCase(s)
    [] action.type = "counter/fetchCount/fulfilled" -> fulfilledCase(s, action)
    [] action.type = "counter/fetchCount/rejected" -> [s EXCEPT !.status = "idle"]
    [] OTHER -> s

\* counterSlice.reducer: the case reducers by action type; any other action
\* (the rejected action of incrementAsync included) returns the state as is.
counterSliceReducer(s, action) ==
  CASE action.type = "counter/increment" -> increment(s)
    [] action.type = "counter/decrement" -> decrement(s)
    [] action.type = "counter/incrementByAmount" -> incrementByAmount(s, action)
    [] action.type = "counter/fetchCount/pending" -> pendingCase(s)
    [] action.type = "counter/fetchCount/fulfilled" -> fulfilledCase(s, action)
    [] OTHER -> s

\* ------------------------------------------------------------------ store
\* The keys of the reducer map of the host store; each mounts counterSliceReducer.
storeReducerKeys == {"counter"}

\* The root reducer: each mounted reducer is applied to its own field; a field
\* that does not exist yet starts from the slice's initialState.
rootReducer(root, action) ==
  [k \in storeReducerKeys |->
     counterSliceReducer(IF k \in DOMAIN root THEN root[k] ELSE initialState, action)]

\* (mutant) a selector that reads the initial state.
selectCountInitial(root) == initialState.value

selectCount(root) == root.counter.value

\* (mutant) the mathematical modulus, never negative.
floorRemainder(a, b) == a % b

\* The JavaScript % operator: the remainder has the sign of the dividend.
jsRemainder(a, b) == IF a >= 0 THEN a % b ELSE -((-a) % b)

\* ------------------------------------------------------------------ hooks
DefaultDispatchHook == "useDispatch"
DefaultSelectorHook == "useSelector"
\* The hooks hosts may pass to initializeSlicePackage.
HostDispatchHooks == {"useAppDispatch", "useOtherDispatch"}
HostSelectorHooks == {"useAppSelector", "useOtherSelector"}

\* ----------------------------------------------------------------- thunks
\* An incrementAsync invocation: its phase, and (history) whether the store
\* has reduced an action of another dispatch since this invocation started.
NoThunk == [phase |-> "none", interleaved |-> FALSE]

InFlight == {i \in RequestIds : thunks[i].phase = "pending"}

\* Request ids are fresh: the next invocation takes the least unused one.
NextRequestId(i) ==
  /\ thunks[i].phase = "none"
  /\ \A j \in RequestIds : j < i => thunks[j].phase # "none"

\* History: every invocation in flight has seen another action go by.
Interleave(ts) ==
  [i \in RequestIds |->
     IF ts[i].phase = "pending" THEN [ts[i] EXCEPT !.interleaved = TRUE] ELSE ts[i]]

\* ------------------------------------------------------------------- Init
Init ==
  /\ state = rootReducer(<<>>, initAction)
  /\ thunks = [i \in RequestIds |-> NoThunk]
  /\ useSliceDispatch = DefaultDispatchHook
  /\ useSliceSelector = DefaultSelectorHook
  /\ lastInit = <<>>
  /\ lastAction = initAction
  /\ prevState = rootReducer(<<>>, initAction)
  /\ lastCall = "none"
  /\ dispatchedSum = 0

\* History: the amount an action asks to be added to value, read off the
\* action alone: 1 and -1 for increment and decrement, the payload for
\* incrementByAmount and for the fulfilled action, nothing otherwise.
actionAmount(action) ==
  CASE action.type = "counter/increment" -> 1
    [] action.type = "counter/decrement" -> -1
    [] action.type = "counter/incrementByAmount" -> action.payload
    [] action.type = "counter/fetchCount/fulfilled" -> action.payload
    [] OTHER -> 0

\* store.dispatch of a plain action: the root reducer is applied in one step.
\* The guard keeps value within the bound of the model.
Dispatch(action) ==
  /\ \A k \in storeReducerKeys : rootReducer(state, action)[k].value \in Values
  /\ state' = rootReducer(state, action)
  /\ lastAction' = action
  /\ prevState' = state
  /\ dispatchedSum' = dispatchedSum + actionAmount(action)

Increment ==
  /\ Dispatch(incrementAction)
  /\ lastCall' = "increment"
  /\ thunks' = Interleave(thunks)
  /\ UNCHANGED <<useSliceDispatch, useSliceSelector, lastInit>>

\* (mutant) a decrement that also aborts the invocations in flight.
DecrementCancels ==
  /\ Dispatch(decrementAction)
  /\ lastCall' = "decrement"
  /\ thunks' = [i \in RequestIds |->
                  IF thunks[i].phase = "pending"
                    THEN [thunks[i] EXCEPT !.phase = "rejected"] ELSE thunks[i]]
  /\ UNCHANGED <<useSliceDispatch, useSliceSelector, lastInit>>

Decrement ==
  /\ Dispatch(decrementAction)
  /\ lastCall' = "decrement"
  /\ thunks' = Interleave(thunks)
  /\ UNCHANGED <<useSliceDispatch, useSliceSelector, lastInit>>

IncrementByAmount(amount) ==
  /\ Dispatch(incrementByAmountAction(amount))
  /\ lastCall' = "incrementByAmount"
  /\ thunks' = Interleave(thunks)
  /\ UNCHANGED <<useSliceDispatch, useSliceSelector, lastInit>>

\* fetchCount(amount) of counterAPI: an external asynchronous call that settles
\* later, either resolving with {data: result} for some integer result or
\* rejecting.  The results it may resolve with, whatever the amount:
fetchCountResults == Amounts

\* dispatch(incrementAsync(amount)), up to the await: the pending action is
\* dispatched synchronously and the payload creator calls fetchCount(amount).
IncrementAsyncPending(amount) ==
  \E i \in RequestIds :
    /\ NextRequestId(i)
    /\ Dispatch(pendingAction(i, amount))
    /\ lastCall' = "incrementAsync"
    /\ thunks' = [Interleave(thunks) EXCEPT ![i] = [phase |-> "pending", interleaved |-> FALSE]]
    /\ UNCHANGED <<useSliceDispatch, useSliceSelector, lastInit>>

\* (mutant) a completion that does not wait for the invocation's start.
IncrementAsyncFulfilledUnstarted(i, result) ==
  /\ thunks[i].phase \in {"none", "pending"}
  /\ Dispatch(fulfilledAction(i, result))
  /\ lastCall' = "fetchCount resolved"
  /\ thunks' = [Interleave(thunks) EXCEPT ![i] = [thunks[i] EXCEPT !.phase = "fulfilled"]]
  /\ UNCHANGED <<useSliceDispatch, useSliceSelector, lastInit>>

\* fetchCount resolves: the payload creator returns response.data and the
\* fulfilled action carrying it is dispatched.
IncrementAsyncFulfilled(i, result) ==
  /\ thunks[i].phase = "pending"
  /\ Dispatch(fulfilledAction(i, result))
  /\ lastCall' = "fetchCount resolved"
  /\ thunks' = [Interleave(thunks) EXCEPT ![i] = [thunks[i] EXCEPT !.phase = "fulfilled"]]
  /\ UNCHANGED <<useSliceDispatch, useSliceSelector, lastInit>>

\* fetchCount rejects: the rejected action is dispatched; the slice has no
\* case for it.
IncrementAsyncRejected(i) ==
  /\ thunks[i].phase = "pending"
  /\ Dispatch(rejectedAction(i))
  /\ lastCall' = "fetchCount rejected"
  /\ thunks' = [Interleave(thunks) EXCEPT ![i] = [thunks[i] EXCEPT !.phase = "rejected"]]
  /\ UNCHANGED <<useSliceDispatch, useSliceSelector, lastInit>>

\* (mutant) an incrementIfOdd that tests an earlier snapshot of the state.
IncrementIfOddStale(amount) ==
  LET currentValue == selectCount(prevState) IN
  /\ lastCall' = "incrementIfOdd"
  /\ IF jsRemainder(currentValue, 2) = 1
       THEN /\ Dispatch(incrementByAmountAction(amount))
            /\ thunks' = Interleave(thunks)
       ELSE UNCHANGED <<state, lastAction, prevState, thunks, dispatchedSum>>
  /\ UNCHANGED <<useSliceDispatch, useSliceSelector, lastInit>>

\* dispatch(incrementIfOdd(amount)): the thunk runs synchronously, reading the
\* state and dispatching incrementByAmount when the remainder test passes.
IncrementIfOdd(amount) ==
  LET currentValue == selectCount(state) IN
  /\ lastCall' = "incrementIfOdd"
  /\ IF jsRemainder(currentValue, 2) = 1
       THEN /\ Dispatch(incrementByAmountAction(amount))
            /\ thunks' = Interleave(thunks)
       ELSE UNCHANGED <<state, lastAction, prevState, thunks, dispatchedSum>>
  /\ UNCHANGED <<useSliceDispatch, useSliceSelector, lastInit>>

\* (mutant) an initialization that rebinds the dispatch hook alone.
InitializeSlicePackageDispatchOnly(useAppDispatch, useAppSelector) ==
  /\ useSliceDispatch' = useAppDispatch
  /\ lastInit' = <<useAppDispatch, useAppSelector>>
  /\ lastCall' = "initializeSlicePackage"
  /\ UNCHANGED <<state, thunks, lastAction, prevState, dispatchedSum, useSliceSelector>>

InitializeSlicePackage(useAppDispatch, useAppSelector) ==
  /\ useSliceDispatch' = useAppDispatch
  /\ useSliceSelector' = useAppSelector
  /\ lastInit' = <<useAppDispatch, useAppSelector>>
  /\ lastCall' = "initializeSlicePackage"
  /\ UNCHANGED <<state, thunks, lastAction, prevState, dispatchedSum>>

Next ==
  \/ Increment
  \/ Decrement
  \/ \E amount \in Amounts : IncrementByAmount(amount)
  \/ \E amount \in Amounts : IncrementAsyncPending(amount)
  \/ \E i \in RequestIds : \E result \in fetchCountResults : IncrementAsyncFulfilled(i, result)
  \/ \E i \in RequestIds : IncrementAsyncRejected(i)
  \/ \E amount \in Amounts : IncrementIfOdd(amount)
  \/ \E d \in HostDispatchHooks : \E s \in HostSelectorHooks : InitializeSlicePackage(d, s)

Spec == Init /\ [][Next]_vars

\* The collaborator assumed infallible: fetchCount never rejects.
NextInfallible ==
  \/ Increment
  \/ Decrement
  \/ \E amount \in Amounts : IncrementByAmount(amount)
  \/ \E amount \in Amounts : IncrementAsyncPending(amount)
  \/ \E i \in RequestIds : \E result \in fetchCountResults : IncrementAsyncFulfilled(i, result)
  \/ \E amount \in Amounts : IncrementIfOdd(amount)
  \/ \E d \in HostDispatchHooks : \E s \in HostSelectorHooks : InitializeSlicePackage(d, s)

SpecInfallible == Init /\ [][NextInfallible]_vars

\* The dispatches into the store, the collaborator infallible.
NextDispatches ==
  \/ Increment
  \/ Decrement
  \/ \E amount \in Amounts : IncrementByAmount(amount)
  \/ \E amount \in Amounts : IncrementAsyncPending(amount)
  \/ \E i \in RequestIds : \E result \in fetchCountResults : IncrementAsyncFulfilled(i, result)
  \/ \E amount \in Amounts : IncrementIfOdd(amount)

\* Fair scheduling with an infallible collaborator: the promise of every
\* fetchCount call settles, and the event loop then runs its continuation, so
\* the completion of an invocation in flight is not postponed for ever.
FairSpec ==
  /\ Init /\ [][NextDispatches]_vars
  /\ \A i \in RequestIds :
       WF_vars(\E result \in fetchCountResults : IncrementAsyncFulfilled(i, result))

\* Dispatches of increment, decrement, incrementByAmount and incrementAsync
\* alone, the collaborator infallible.
NextPlain ==
  \/ Increment
  \/ Decrement
  \/ \E amount \in Amounts : IncrementByAmount(amount)
  \/ \E amount \in Amounts : IncrementAsyncPending(amount)
  \/ \E i \in RequestIds : \E result \in fetchCountResults : IncrementAsyncFulfilled(i, result)

SpecPlain == Init /\ [][NextPlain]_vars

\* ================================================================ claims
\* n applications of the increment action, through the slice reducer.
RECURSIVE incrementTimes(_, _)
incrementTimes(s, n) ==
  IF n = 0 THEN s ELSE incrementTimes(counterSliceReducer(s, incrementAction), n - 1)

\* C1: dispatching incrementAsync(amount) against {value: v, status: s} gives
\* {value: v, status: loading} at once, and when the store reduces no other
\* action before the collaborator resolves with r, the completion gives
\* {value: v + r, status: idle}.  (With nothing in between, the action reduced
\* last is the invocation's own pending action and prevState is the state the
\* invocation was dispatched against.)
C1_IncrementAsyncRoundTrip ==
  [][ /\ \A amount \in Amounts :
           (lastCall' = "incrementAsync" /\ IncrementAsyncPending(amount)) =>
             state'.counter = [value |-> state.counter.value, status |-> "loading"]
      /\ \A i \in RequestIds : \A result \in fetchCountResults :
           (lastCall' = "fetchCount resolved" /\ ~thunks[i].interleaved
              /\ IncrementAsyncFulfilled(i, result)) =>
             /\ lastAction.type = "counter/fetchCount/pending"
             /\ lastAction.requestId = i
             /\ state.counter = [value |-> prevState.counter.value, status |-> "loading"]
             /\ state'.counter = [value |-> prevState.counter.value + result, status |-> "idle"]
    ]_vars

\* C1 witness: an invocation dispatched against a nonzero value has completed
\* with a nonzero result and nothing in between.
C1_Witness ==
  /\ lastAction.type = "counter/fetchCount/fulfilled"
  /\ ~thunks[lastAction.requestId].interleaved
  /\ lastAction.payload # 0
  /\ prevState.counter.value # 0
  /\ state.counter = [value |-> prevState.counter.value + lastAction.payload, status |-> "idle"]

\* C2: incrementIfOdd(amount) adds amount to value exactly when value is a
\* positive odd number (the only values whose remainder by 2, taken with the
\* sign of value, is 1) and otherwise (even, zero, negative) leaves the state
\* as it is.
C2_IncrementIfOdd ==
  [][ \A amount \in Amounts :
        (lastCall' = "incrementIfOdd" /\ IncrementIfOdd(amount)) =>
          IF state.counter.value > 0 /\ state.counter.value % 2 = 1
            THEN state'.counter = [state.counter EXCEPT !.value = @ + amount]
            ELSE state' = state
    ]_vars

\* C2 witness: incrementIfOdd has just run on a negative odd value and
\* dispatched nothing (the action reduced last is not an incrementByAmount).
C2_Witness ==
  /\ lastCall = "incrementIfOdd"
  /\ state.counter.value < 0
  /\ state.counter.value % 2 = 1
  /\ lastAction.type # "counter/incrementByAmount"

\* C3: before any action has been dispatched the slice state is exactly
\* {value: 0, status: idle}.
C3_InitialState ==
  lastAction = initAction => state.counter = [value |-> 0, status |-> "idle"]

\* C3 witness: the freshly constructed store.
C3_Witness ==
  /\ lastAction = initAction
  /\ lastCall = "none"
  /\ \A i \in RequestIds : thunks[i].phase = "none"

\* C4: incrementByAmount(a) sets value to exactly v + a, for positive, zero
\* and negative a, with no clamping, and leaves status alone.
C4_IncrementByAmount ==
  [][ \A amount \in Amounts :
        (lastCall' = "incrementByAmount" /\ IncrementByAmount(amount)) =>
          state'.counter = [value |-> state.counter.value + amount,
                            status |-> state.counter.status]
    ]_vars

\* C4 witness: a negative amount has taken a positive value below zero.
C4_Witness ==
  /\ lastCall = "incrementByAmount"
  /\ lastAction.payload < 0
  /\ prevState.counter.value > 0
  /\ state.counter.value < 0
  /\ state.counter.value = prevState.counter.value + lastAction.payload

\* C5: a decrement applied right after an increment returns the state to the
\* one before the increment (prevState), value and status alike.
C5_IncrementDecrementInverse ==
  [][ (lastCall = "increment" /\ Decrement) => state' = prevState ]_vars

\* C5 witness: an increment has been applied to a negative value while an
\* invocation is in flight, and decrement takes the state back.
C5_Witness ==
  /\ lastCall = "increment"
  /\ prevState.counter.value < 0
  /\ prevState.counter.status = "loading"
  /\ state # prevState
  /\ rootReducer(state, decrementAction) = prevState

\* C6: for every n >= 0, n increments in a row give the state that one
\* incrementByAmount(n) gives.
C6_IncrementTimes ==
  \A n \in 0..MaxRepeat :
    incrementTimes(state.counter, n)
      = counterSliceReducer(state.counter, incrementByAmountAction(n))

\* C6 witness: an increment has been applied to a negative value with an
\* invocation in flight, and the state agrees with incrementByAmount(1)
\* applied to the state before it.
C6_Witness ==
  /\ lastCall = "increment"
  /\ prevState.counter.value < 0
  /\ state.counter.status = "loading"
  /\ state.counter = counterSliceReducer(prevState.counter, incrementByAmountAction(1))
  /\ incrementTimes(prevState.counter, 1) = state.counter

\* C7: before any call of initializeSlicePackage the exported hooks are the
\* defaults, and after calls they are exactly the pair of the latest call.
C7_HooksAreLatestPair ==
  IF lastInit = <<>>
    THEN /\ useSliceDispatch = DefaultDispatchHook
         /\ useSliceSelector = DefaultSelectorHook
    ELSE <<useSliceDispatch, useSliceSelector>> = lastInit

\* C7 witness: after a later call with another pair, and further operations,
\* the hooks are that pair.
C7_Witness ==
  /\ lastInit = <<"useOtherDispatch", "useOtherSelector">>
  /\ useSliceDispatch = "useOtherDispatch"
  /\ useSliceSelector = "useOtherSelector"
  /\ lastCall = "decrement"
  /\ \E i \in RequestIds : thunks[i].phase = "fulfilled"

\* C8 as stated: once the collaborator call of an invocation has rejected,
\* status is loading in every later state.
C8_RejectedStaysLoading ==
  (\E i \in RequestIds : thunks[i].phase = "rejected") => state.counter.status = "loading"

\* C8 amended: a rejection leaves the state as it is, and once an invocation
\* has rejected, a status of loading is changed by nothing but the successful
\* completion of another invocation.
C8_RejectedKeepsStatus ==
  [][ /\ \A i \in RequestIds :
           (lastCall' = "fetchCount rejected" /\ IncrementAsyncRejected(i)) => state' = state
      /\ ( /\ \E i \in RequestIds : thunks[i].phase = "rejected"
           /\ state.counter.status = "loading"
           /\ state'.counter.status # "loading" )
         => \E j \in RequestIds : \E result \in fetchCountResults :
              /\ thunks[j].phase = "pending"
              /\ IncrementAsyncFulfilled(j, result)
    ]_vars

\* C8 witness: the only invocation dispatched has rejected and another action
\* has been reduced since; status is still loading.
C8_Witness ==
  /\ thunks[1].phase = "rejected"
  /\ \A i \in RequestIds : i # 1 => thunks[i].phase = "none"
  /\ lastCall = "decrement"
  /\ state.counter.status = "loading"

\* C9: selectCount of the root state of the host store is the value of the
\* slice mounted there: the value of the field of every key the store mounts
\* the slice reducer under, which is the value the slice reducer computed from
\* the slice's previous state and the action reduced last.
C9_SelectCount ==
  /\ \A k \in storeReducerKeys : selectCount(state) = state[k].value
  /\ selectCount(state) = counterSliceReducer(prevState.counter, lastAction).value

\* C9 witness: a nonzero value is selected after the store has reduced a
\* completion.
C9_Witness ==
  /\ lastAction.type = "counter/fetchCount/fulfilled"
  /\ selectCount(state) # 0
  /\ selectCount(state) = prevState.counter.value + lastAction.payload

\* C10: a completion that comes after actions of other dispatches adds its
\* result to the value held right before the completion.
C10_CompletionUsesCurrentValue ==
  [][ \A i \in RequestIds : \A result \in fetchCountResults :
        (lastCall' = "fetchCount resolved" /\ thunks[i].interleaved
           /\ IncrementAsyncFulfilled(i, result)) =>
          state'.counter.value = state.counter.value + result
    ]_vars

\* C10 witness: an invocation has completed with a nonzero result after other
\* actions were reduced, among them the start of a second invocation.
C10_Witness ==
  /\ lastAction.type = "counter/fetchCount/fulfilled"
  /\ lastAction.requestId = 1
  /\ thunks[1].interleaved
  /\ thunks[2].phase = "pending"
  /\ lastAction.payload # 0
  /\ prevState.counter.value # 0
  /\ state.counter.value = prevState.counter.value + lastAction.payload

\* C11: status is loading whenever an invocation has started and not yet
\* completed, and idle when none is in flight (the collaborator infallible),
\* overlapping invocations included.
C11_StatusTracksInFlight ==
  state.counter.status = IF InFlight # {} THEN "loading" ELSE "idle"

\* C12: a step that changes status to loading is the start of an invocation,
\* and a step that changes status to idle is the successful completion of one.
C12_StatusTransitions ==
  [][ /\ (state'.counter.status # state.counter.status /\ state'.counter.status = "loading")
           => \E amount \in Amounts : IncrementAsyncPending(amount)
      /\ (state'.counter.status # state.counter.status /\ state'.counter.status = "idle")
           => \E i \in RequestIds : \E result \in fetchCountResults :
                IncrementAsyncFulfilled(i, result)
    ]_vars

\* C12 witness: a completion has just taken status from loading to idle
\* while another invocation, whose call rejected, has been settled too.
C12_Witness ==
  /\ lastCall = "fetchCount resolved"
  /\ prevState.counter.status = "loading"
  /\ state.counter.status = "idle"
  /\ \E i \in RequestIds : thunks[i].phase = "rejected"

\* C13: status is never failed, whatever is dispatched and also when the
\* collaborator call of an invocation rejects.
C13_NeverFailed ==
  /\ state.counter.status \in StatusValues
  /\ state.counter.status # "failed"

\* C13 witness: the collaborator call of an invocation has just rejected.
C13_Witness ==
  /\ lastCall = "fetchCount rejected"
  /\ lastAction.type = "counter/fetchCount/rejected"
  /\ thunks[lastAction.requestId].phase = "rejected"
  /\ state.counter.status = "loading"

\* C14: value changes only in steps of increment, decrement, incrementByAmount,
\* incrementIfOdd (through the incrementByAmount it dispatches) and the
\* fulfilled completion; the start of an invocation, a rejection, an
\* incrementIfOdd whose test fails and initializeSlicePackage leave it alone.
C14_ValueFrame ==
  [][ /\ state'.counter.value # state.counter.value =>
           \/ lastCall' = "increment" /\ Increment
           \/ lastCall' = "decrement" /\ Decrement
           \/ lastCall' = "incrementByAmount"
                /\ IncrementByAmount(lastAction'.payload)
           \/ lastCall' = "incrementIfOdd"
                /\ lastAction'.type = "counter/incrementByAmount"
                /\ IncrementIfOdd(lastAction'.payload)
           \/ lastCall' = "fetchCount resolved"
                /\ IncrementAsyncFulfilled(lastAction'.requestId, lastAction'.payload)
      /\ ( \/ lastCall' = "incrementAsync"
                /\ \E amount \in Amounts : IncrementAsyncPending(amount)
           \/ lastCall' = "fetchCount rejected"
                /\ \E i \in RequestIds : IncrementAsyncRejected(i)
           \/ lastCall' = "incrementIfOdd"
                /\ jsRemainder(state.counter.value, 2) # 1
                /\ \E amount \in Amounts : IncrementIfOdd(amount)
           \/ lastCall' = "initializeSlicePackage"
                /\ \E d \in HostDispatchHooks : \E s \in HostSelectorHooks :
                     InitializeSlicePackage(d, s) )
         => state'.counter.value = state.counter.value
    ]_vars

\* C14 witness: an invocation has just started against a nonzero value, which
\* it left as it was.
C14_Witness ==
  /\ lastCall = "incrementAsync"
  /\ lastAction.type = "counter/fetchCount/pending"
  /\ prevState.counter.value # 0
  /\ state.counter.value = prevState.counter.value

\* C15: the phases of an invocation come in order.  Its phase moves from not
\* started to in flight only in the step that reduces its own pending action
\* (status is then loading) and in which fetchCount is called, and from in
\* flight to settled only in the step that reduces its own fulfilled or
\* rejected action; a completion is reduced only for an invocation in flight.
C15_PhaseOrder ==
  [][ \A i \in RequestIds :
        /\ thunks'[i].phase # thunks[i].phase =>
             \/ /\ thunks[i].phase = "none"
                /\ thunks'[i].phase = "pending"
                /\ lastAction'.type = "counter/fetchCount/pending"
                /\ lastAction'.requestId = i
                /\ state'.counter.status = "loading"
             \/ /\ thunks[i].phase = "pending"
                /\ thunks'[i].phase = "fulfilled"
                /\ lastAction'.type = "counter/fetchCount/fulfilled"
                /\ lastAction'.requestId = i
             \/ /\ thunks[i].phase = "pending"
                /\ thunks'[i].phase = "rejected"
                /\ lastAction'.type = "counter/fetchCount/rejected"
                /\ lastAction'.requestId = i
        /\ (lastCall' \in {"fetchCount resolved", "fetchCount rejected"}
              /\ lastAction'.requestId = i)
             => thunks[i].phase = "pending"
    ]_vars

\* C15 witness: the second invocation has completed after actions of other
\* dispatches were reduced since its start, the first one still in flight.
C15_Witness ==
  /\ lastCall = "fetchCount resolved"
  /\ lastAction.requestId = 2
  /\ thunks[2].phase = "fulfilled"
  /\ thunks[2].interleaved
  /\ thunks[1].phase = "pending"

\* C16: with an infallible collaborator and fair scheduling, every invocation
\* in flight is eventually completed; an invocation leaves the in-flight
\* phase by its own completion alone, which adds its result to value, and
\* once completed it is not completed again.
C16_CompletionApplied ==
  /\ \A i \in RequestIds : (thunks[i].phase = "pending") ~> (thunks[i].phase = "fulfilled")
  /\ [][ \A i \in RequestIds :
           /\ (thunks[i].phase = "pending" /\ thunks'[i].phase # "pending") =>
                \E result \in fetchCountResults :
                  /\ IncrementAsyncFulfilled(i, result)
                  /\ state'.counter.value = state.counter.value + result
           /\ thunks[i].phase = "fulfilled" =>
                /\ thunks'[i].phase = "fulfilled"
                /\ ~(lastCall' = "fetchCount resolved" /\ lastAction'.requestId = i)
       ]_vars

\* C16 witness: both invocations have been completed, the first one after a
\* decrement was reduced while it was in flight.
C16_Witness ==
  /\ \A i \in RequestIds : thunks[i].phase = "fulfilled"
  /\ thunks[1].interleaved
  /\ lastCall = "fetchCount resolved"
  /\ lastAction.requestId = 1
  /\ lastAction.payload # 0

\* C17: incrementIfOdd tests the value of the very state its incrementByAmount
\* is reduced from: when it changes the state, the state before the step has
\* an odd value and the step adds the amount to that value; when the state
\* before the step passes the test, the step reduces the action from it.
C17_IncrementIfOddAtomic ==
  [][ lastCall' = "incrementIfOdd" =>
        /\ state' # state =>
             /\ jsRemainder(state.counter.value, 2) = 1
             /\ prevState' = state
             /\ lastAction'.type = "counter/incrementByAmount"
             /\ state'.counter.value = state.counter.value + lastAction'.payload
        /\ jsRemainder(state.counter.value, 2) = 1 =>
             /\ prevState' = state
             /\ lastAction'.type = "counter/incrementByAmount"
    ]_vars

\* C17 witness: incrementIfOdd has just added an even nonzero amount to an odd
\* value while an invocation was in flight.
C17_Witness ==
  /\ lastCall = "incrementIfOdd"
  /\ lastAction.type = "counter/incrementByAmount"
  /\ lastAction.payload # 0
  /\ jsRemainder(prevState.counter.value, 2) = 1
  /\ jsRemainder(state.counter.value, 2) = 1
  /\ state.counter.value = prevState.counter.value + lastAction.payload
  /\ \E i \in RequestIds : thunks[i].phase = "pending" /\ thunks[i].interleaved

\* C18: increment, decrement, incrementByAmount and incrementIfOdd leave
\* status as it is, loading or idle.
C18_StatusFrame ==
  [][ ( \/ lastCall' = "increment" /\ Increment
        \/ lastCall' = "decrement" /\ Decrement
        \/ lastCall' = "incrementByAmount"
             /\ \E amount \in Amounts : IncrementByAmount(amount)
        \/ lastCall' = "incrementIfOdd"
             /\ \E amount \in Amounts : IncrementIfOdd(amount) )
      => state'.counter.status = state.counter.status
    ]_vars

\* C18 witness: an increment has just been reduced with an invocation in
\* flight, and status is still loading.
C18_Witness ==
  /\ lastCall = "increment"
  /\ prevState.counter.status = "loading"
  /\ state.counter.status = "loading"
  /\ state.counter.value = prevState.counter.value + 1
  /\ \E i \in RequestIds : thunks[i].phase = "pending"

\* C19: with dispatches of increment, decrement, incrementByAmount and
\* incrementAsync alone and an infallible collaborator, once every invocation
\* has completed value is the initial value plus the sum of the amounts and
\* results dispatched, in whatever order they were reduced, and status is
\* idle if an invocation was dispatched.
C19_OrderIndependent ==
  InFlight = {} =>
    /\ state.counter.value = initialState.value + dispatchedSum
    /\ (\E i \in RequestIds : thunks[i].phase # "none") => state.counter.status = "idle"

\* C19 witness: two overlapping invocations have completed, with other
\* actions reduced in between, and the sum is not zero.
C19_Witness ==
  /\ \A i \in RequestIds : thunks[i].phase = "fulfilled" /\ thunks[i].interleaved
  /\ lastCall = "decrement"
  /\ dispatchedSum # 0
  /\ state.counter.value = dispatchedSum

====
